---- MODULE Spec2Model ----
(***************************************************************************)
(* Token bucket rate limiter of app/rate_limiter.js: one server process,   *)
(* its Redis client (one connection, commands answered in the order they   *)
(* were issued), the shared store with per-key expiry, and the wall clock  *)
(* read by Date.now().                                                     *)
(*                                                                         *)
(* Times are in milliseconds, as Date.now() gives them.  Token counts are  *)
(* kept in thousandths of a token, so that                                 *)
(*   bucket.tokens + ((now - lastRefill) / 1000) * TOKENS_PER_SECOND       *)
(* is computed exactly over the integers.                                  *)
(***************************************************************************)
EXTENDS Integers, Sequences, FiniteSets, TLC

\* ---------------------------------------------------------------- constants

TOKENS_PER_SECOND == 1
MAX_TOKENS == 10
TOKEN_COST == 10
\* the expiry handed to setEx, in seconds
RECORD_TTL == 3600
\* milliseconds per second: the divisor of timeDiff
MS == 1000

\* ------------------------------------------------------------------- bounds

\* commands the Redis client may have outstanding at once
MaxInFlight == 2
\* the clock runs over 0..MaxNow, and again over the same span after one
\* idle period of a full record TTL
MaxNow == 15000
\* requests the model follows, and times the clock is set back
MaxRequests == 3
MaxSetBacks == 1

\* what the clock may advance by in one step, and what it may step back by
Delays == {7500, 10000}
BackSteps == {7500}
\* a shorter time between two requests served one after the other
ShortDelays == {2500}
IdleGap == RECORD_TTL * MS

\* ------------------------------------------------------------------ values

Null == "null"
IPs == {"ip1", "ip2"}
\* a request: its x-forwarded-for header and its socket's remote address
Requests == [xff : IPs \cup {Null}, remote : IPs \cup {Null}]
\* the requests of one client, behind a proxy or not
OneClient == {req \in Requests : req.xff \in {Null, "ip1"} /\ req.remote \in {Null, "ip1"}}

\* the requests of two clients: one whose proxy names it ip1 in the header
\* while the socket's peer is ip2, one that connects from ip2 with no
\* header, and one with neither
TwoClients ==
    {[xff |-> "ip1", remote |-> "ip2"],
     [xff |-> Null, remote |-> "ip2"],
     [xff |-> Null, remote |-> Null]}

\* the tags of a search, as the query of POST /zip and as a message field
Tags == {"cats", "dogs"}

\* the data of a Pub/Sub message as the listener's JSON.parse reads it: an
\* object with the fields the handler looks at (Null for a missing field),
\* the JSON text null, or a text that is not JSON
MessageData(tags, requestType, prenom) ==
    [form |-> "object", tags |-> tags, requestType |-> requestType,
     prenom |-> prenom]
JSONnullMessage == [MessageData(Null, Null, Null) EXCEPT !.form = "null"]
TextMessage == [MessageData(Null, Null, Null) EXCEPT !.form = "text"]

\* what other publishers put on the topic: a zip request that names its
\* user, a plain text and the JSON text null
OtherMessages ==
    {MessageData(t, "zip", "prenom") : t \in Tags}
        \cup {TextMessage, JSONnullMessage}

\* JavaScript's undefined, null and NaN where a number is expected: integers
\* that no time and no token count of the model comes near
Undefined == -1000000001
JSnull == -1000000002
NaN == -1000000003
IsNumber(v) == v \notin {Undefined, JSnull, NaN}

\* no bucket (null), and a bucket object
NoBucket == [present |-> FALSE, lastRefill |-> 0, tokens |-> 0]
Bucket(lastRefill, tokens) ==
    [present |-> TRUE, lastRefill |-> lastRefill, tokens |-> tokens]

\* a key the store does not hold
Absent == [present |-> FALSE, data |-> <<>>, ttl |-> 0]

VARIABLES
    clock,              \* Date.now()
    conn,               \* the Redis client's connection
    isRedisConnected,   \* the module's flag
    store,              \* the store: key rate_limit:<ip> -> value and expiry
    queue,              \* commands issued and not yet answered, oldest first
    last,               \* the request the latest step completed, and how
    nreq,               \* requests started so far
    nback,              \* times the clock was set back so far
    admitted,           \* Date.now() of each request Serve admitted, in order
    waiting,            \* tags of the POST /zip requests inside rateLimiter,
                        \* in the order of their commands in queue
    sending,            \* messages POST /zip handed to sendMessage
    reply,              \* the response the latest step sent for POST /zip
    topic,              \* messages published and not acked, each with the
                        \* position of its handler
    handled,            \* the delivery the latest step settled, and how
    zipFilesStore,      \* the Map of listenForMessage.js: tags -> filename
    files               \* the files uploaded to the storage bucket

\* the state of POST /zip and of the Pub/Sub listener
zipvars == <<waiting, sending, reply, topic, handled, zipFilesStore, files>>

vars ==
    <<clock, conn, isRedisConnected, store, queue, last, nreq, nback,
      admitted, waiting, sending, reply, topic, handled, zipFilesStore,
      files>>

Milli(t) == t * MS

\* -------------------------------------------------------------- conversions

\* JSON.stringify({lastRefill, tokens}): the fields in the order written, a
\* NaN written as null
JSONstringify(bucket) ==
    LET text(v) == IF v = NaN THEN JSnull ELSE v
    IN <<text(bucket.lastRefill), text(bucket.tokens)>>

\* stored values this module did not write: a text that is not JSON, and the
\* JSON object {} with neither field
NotJSON == <<NaN>>
EmptyObject == <<Undefined, Undefined>>

\* whether JSON.parse accepts the text
Parses(data) == Len(data) = 2 /\ \A i \in 1..2 : data[i] # NaN

\* JSON.parse of a stored value it accepts: a missing field reads undefined
JSONparse(data) == Bucket(data[1], data[2])

\* ------------------------------------------------------------ pure functions

\* getClientIP preferring the socket's remote address to the header
getClientIP_PeerFirst(req) ==
    IF req.remote # Null THEN req.remote
    ELSE IF req.xff # Null THEN req.xff
    ELSE Null

\* req.headers['x-forwarded-for'] || req.socket.remoteAddress || null; Null
\* stands for a value that is missing or empty
getClientIP(req) ==
    IF req.xff # Null THEN req.xff
    ELSE IF req.remote # Null THEN req.remote
    ELSE Null

\* the number an operand of an arithmetic operator is converted to
ToNumber(v) == IF v = Undefined THEN NaN ELSE IF v = JSnull THEN 0 ELSE v

\* a + b, a - b and a * b on numbers, null and undefined
Plus(a, b) ==
    IF ToNumber(a) = NaN \/ ToNumber(b) = NaN THEN NaN
    ELSE ToNumber(a) + ToNumber(b)
Minus(a, b) ==
    IF ToNumber(a) = NaN \/ ToNumber(b) = NaN THEN NaN
    ELSE ToNumber(a) - ToNumber(b)
Times(a, b) ==
    IF ToNumber(a) = NaN \/ ToNumber(b) = NaN THEN NaN
    ELSE ToNumber(a) * ToNumber(b)

\* a >= b and a > b: false when either side is NaN
AtLeast(a, b) ==
    ToNumber(a) # NaN /\ ToNumber(b) # NaN /\ ToNumber(a) >= ToNumber(b)
MoreThan(a, b) ==
    ToNumber(a) # NaN /\ ToNumber(b) # NaN /\ ToNumber(a) > ToNumber(b)

\* Math.min(a, b)
Min(a, b) ==
    IF ToNumber(a) = NaN \/ ToNumber(b) = NaN THEN NaN
    ELSE IF ToNumber(a) <= ToNumber(b) THEN ToNumber(a) ELSE ToNumber(b)

\* Math.ceil(a / b) for b > 0
Ceil(a, b) == IF a = NaN THEN NaN ELSE -((-a) \div b)

\* calculateAvailableTokens without the Math.min
calculateAvailableTokens_NoClamp(bucket, now) ==
    IF ~bucket.present
    THEN [lastRefill |-> now, tokens |-> Milli(MAX_TOKENS)]
    ELSE LET timeDiff == Minus(now, bucket.lastRefill)
             tokensToAdd == Times(timeDiff, TOKENS_PER_SECOND)
         IN [lastRefill |-> bucket.lastRefill,
             tokens |-> Plus(bucket.tokens, tokensToAdd)]

\* calculateAvailableTokens without the division of the elapsed
\* milliseconds by 1000
calculateAvailableTokens_Milliseconds(bucket, now) ==
    IF ~bucket.present
    THEN [lastRefill |-> now, tokens |-> Milli(MAX_TOKENS)]
    ELSE LET timeDiff == Times(Minus(now, bucket.lastRefill), MS)
             tokensToAdd == Times(timeDiff, TOKENS_PER_SECOND)
         IN [lastRefill |-> bucket.lastRefill,
             tokens |-> Min(Plus(bucket.tokens, tokensToAdd),
                            Milli(MAX_TOKENS))]

\* calculateAvailableTokens measuring the elapsed time from now itself
calculateAvailableTokens_NoRefill(bucket, now) ==
    IF ~bucket.present
    THEN [lastRefill |-> now, tokens |-> Milli(MAX_TOKENS)]
    ELSE LET timeDiff == Minus(now, now)
             tokensToAdd == Times(timeDiff, TOKENS_PER_SECOND)
             availableTokens == Min(Plus(bucket.tokens, tokensToAdd), Milli(MAX_TOKENS))
         IN [lastRefill |-> bucket.lastRefill, tokens |-> availableTokens]

\* calculateAvailableTokens counting whole elapsed seconds only
calculateAvailableTokens_WholeSeconds(bucket, now) ==
    IF ~bucket.present
    THEN [lastRefill |-> now, tokens |-> Milli(MAX_TOKENS)]
    ELSE LET timeDiff == (Minus(now, bucket.lastRefill) \div MS) * MS
             tokensToAdd == Times(timeDiff, TOKENS_PER_SECOND)
             availableTokens == Min(Plus(bucket.tokens, tokensToAdd), Milli(MAX_TOKENS))
         IN [lastRefill |-> bucket.lastRefill, tokens |-> availableTokens]

\* calculateAvailableTokens starting a new client with an empty bucket
calculateAvailableTokens_FreshEmpty(bucket, now) ==
    IF ~bucket.present
    THEN [lastRefill |-> now, tokens |-> 0]
    ELSE LET timeDiff == Minus(now, bucket.lastRefill)
             tokensToAdd == Times(timeDiff, TOKENS_PER_SECOND)
             availableTokens == Min(Plus(bucket.tokens, tokensToAdd), Milli(MAX_TOKENS))
         IN [lastRefill |-> bucket.lastRefill, tokens |-> availableTokens]

\* calculateAvailableTokens, after the read: bucket is what
\* getBucketFromRedis returned
calculateAvailableTokens(bucket, now) ==
    IF ~bucket.present
    THEN [lastRefill |-> now, tokens |-> Milli(MAX_TOKENS)]
    ELSE LET timeDiff == Minus(now, bucket.lastRefill)
             tokensToAdd == Times(timeDiff, TOKENS_PER_SECOND)
             availableTokens == Min(Plus(bucket.tokens, tokensToAdd), Milli(MAX_TOKENS))
         IN [lastRefill |-> bucket.lastRefill, tokens |-> availableTokens]

\* the test of rateLimiter with > for >=
Allowed_Strict(tokens) == MoreThan(tokens, Milli(TOKEN_COST))

\* the test of rateLimiter
Allowed(tokens) == AtLeast(tokens, Milli(TOKEN_COST))

\* the bucket handed to saveBucketToRedis, the admit path keeping the anchor
\* of the snapshot
BucketToSave_AdmitKeepsAnchor(available, now) ==
    IF Allowed(available.tokens)
    THEN Bucket(available.lastRefill, available.tokens - Milli(TOKEN_COST))
    ELSE Bucket(now, available.tokens)

\* the bucket handed to saveBucketToRedis, the deny path keeping the anchor
\* of the snapshot
BucketToSave_DenyKeepsAnchor(available, now) ==
    IF Allowed(available.tokens)
    THEN Bucket(now, available.tokens - Milli(TOKEN_COST))
    ELSE Bucket(available.lastRefill, available.tokens)

\* the bucket handed to saveBucketToRedis, the admit path saving the tokens
\* it computed instead of the remaining ones
BucketToSave_NoDebit(available, now) ==
    Bucket(now, available.tokens)

\* the bucket handed to saveBucketToRedis, anchored at the instant the
\* refill was counted from instead of now
BucketToSave_KeepsAnchor(available, now) ==
    IF Allowed(available.tokens)
    THEN Bucket(available.lastRefill, available.tokens - Milli(TOKEN_COST))
    ELSE Bucket(available.lastRefill, available.tokens)

\* the bucket handed to saveBucketToRedis, a denial emptying the bucket
BucketToSave_DenyEmpties(available, now) ==
    IF Allowed(available.tokens)
    THEN Bucket(now, available.tokens - Milli(TOKEN_COST))
    ELSE Bucket(now, 0)

\* the bucket rateLimiter hands to saveBucketToRedis
BucketToSave(available, now) ==
    IF Allowed(available.tokens)
    THEN LET remainingTokens == available.tokens - Milli(TOKEN_COST)
         IN Bucket(now, remainingTokens)
    ELSE Bucket(now, available.tokens)

\* tokens.toFixed(2), in hundredths of a token (ties away from zero); "NaN"
\* for NaN
toFixed2(tokens) ==
    IF tokens = NaN THEN NaN
    ELSE IF tokens >= 0 THEN (tokens + 5) \div 10 ELSE -((5 - tokens) \div 10)

\* new Date(ms).toISOString(): the instant spelled as its whole seconds
\* since the epoch and the milliseconds after them
toISOString(ms) == <<ms \div MS, ms % MS>>

\* the instant an ISO string spells, in milliseconds
DateParse(iso) == iso[1] * MS + iso[2]

\* waitTimeSeconds of the deny path with Math.floor for Math.ceil
WaitTimeSeconds_Floor(tokens) ==
    LET tokensNeeded == Milli(TOKEN_COST) - tokens
    IN tokensNeeded \div Milli(TOKENS_PER_SECOND)

\* waitTimeSeconds of the deny path
WaitTimeSeconds(tokens) ==
    LET tokensNeeded == Minus(Milli(TOKEN_COST), tokens)
    IN Ceil(tokensNeeded, Milli(TOKENS_PER_SECOND))

\* getBucketFromRedis with a catch that returns an empty bucket for null
getBucketFromRedis_ErrorIsEmpty(entry, ok) ==
    IF ok /\ entry.present /\ Parses(entry.data) THEN JSONparse(entry.data)
    ELSE IF ok THEN NoBucket
    ELSE Bucket(0, 0)

\* what getBucketFromRedis returns once the get is answered: the parsed
\* value, or null for a rejected get, a missing key and a text JSON.parse
\* throws on
getBucketFromRedis(entry, ok) ==
    IF ok /\ entry.present /\ Parses(entry.data)
    THEN JSONparse(entry.data)
    ELSE NoBucket

\* setEx handing the expiry over in milliseconds (psetEx)
setEx_Milliseconds(bucket) ==
    [present |-> TRUE, data |-> JSONstringify(bucket), ttl |-> RECORD_TTL]

\* setEx with an expiry shorter than the time a bucket takes to refill
setEx_ShortLived(bucket) ==
    [present |-> TRUE, data |-> JSONstringify(bucket),
     ttl |-> Milli(MAX_TOKENS \div TOKENS_PER_SECOND) \div 2]

\* the key as setEx leaves it
setEx(bucket) ==
    [present |-> TRUE, data |-> JSONstringify(bucket), ttl |-> Milli(RECORD_TTL)]

\* saveBucketToRedis writing every bucket under one key
saveBucketToRedis_OneKey(s, ip, bucket, ok) ==
    IF ok THEN [s EXCEPT !["ip1"] = setEx(bucket)] ELSE s

\* saveBucketToRedis with a catch that deletes the key
saveBucketToRedis_ErrorDeletes(s, ip, bucket, ok) ==
    IF ok THEN [s EXCEPT ![ip] = setEx(bucket)] ELSE [s EXCEPT ![ip] = Absent]

\* the store once the setEx of saveBucketToRedis is answered (ok) or
\* rejected: the catch only logs
saveBucketToRedis(s, ip, bucket, ok) ==
    IF ok THEN [s EXCEPT ![ip] = setEx(bucket)] ELSE s

\* a store that drops every key as soon as any time passes
Expire_AnyDelay(s, d) == [ip \in IPs |-> Absent]

\* the store after d milliseconds: expiry counts down, expired keys go
Expire(s, d) ==
    [ip \in IPs |->
        IF s[ip].present /\ s[ip].ttl > d
        THEN [s[ip] EXCEPT !.ttl = @ - d]
        ELSE Absent]

\* ------------------------------------------------------------- request state

\* no response, and no delivery
NoReply == [status |-> 0, tags |-> Null]
NoDelivery ==
    [data |-> TextMessage, origin |-> "none", stage |-> "none",
     routed |-> FALSE, filename |-> <<>>, acks |-> 0, nacks |-> 0,
     threw |-> FALSE]

\* the zip state as the modules are loaded: nothing sent, an empty Map
ZipInit ==
    /\ waiting = <<>>
    /\ sending = <<>>
    /\ reply = NoReply
    /\ topic = <<>>
    /\ handled = NoDelivery
    /\ zipFilesStore = [t \in Tags |-> <<>>]
    /\ files = {}

NoRequest ==
    [path |-> "none", kind |-> "none", ip |-> Null, now |-> 0,
     startFlag |-> FALSE,
     raw |-> <<>>, snap |-> NoBucket, snapOk |-> FALSE,
     lastRefill |-> 0, tokens |-> 0,
     toSave |-> NoBucket,
     saved |-> "none",
     outcome |-> "none", status |-> 0, retryAfter |-> 0,
     availableTokens |-> 0, requiredTokens |-> 0,
     maxTokens |-> 0, tokensPerSecond |-> 0, tokenCost |-> 0,
     isoLastRefill |-> <<>>]

\* a request of rateLimiter as it starts
NewRequest(ip) ==
    [NoRequest EXCEPT !.ip = ip, !.now = clock,
                      !.startFlag = isRedisConnected]

\* the request calls next()
CallNext(r) == [r EXCEPT !.outcome = "next", !.kind = "done"]

\* the deny path without its return: the 429 is sent and next() is called
Deny_AndNext(r) ==
    [r EXCEPT !.outcome = "next", !.kind = "done", !.status = 429,
              !.retryAfter = WaitTimeSeconds(r.tokens),
              !.availableTokens = toFixed2(r.tokens),
              !.requiredTokens = TOKEN_COST]

\* the request answers 429
Deny(r) ==
    [r EXCEPT !.outcome = "429", !.kind = "done", !.status = 429,
              !.retryAfter = WaitTimeSeconds(r.tokens),
              !.availableTokens = toFixed2(r.tokens),
              !.requiredTokens = TOKEN_COST]

\* an exception leaves rateLimiter: its promise is rejected, nothing is sent
\* and next() is not called
Reject(r) == [r EXCEPT !.outcome = "rejected", !.kind = "done"]

\* the fallback answering 429 instead of calling next()
FailOpen_Denies(r) == Deny([r EXCEPT !.path = "failopen"])

\* the first early return answering 429 instead of calling next()
Unidentified_Denies(r) == Deny([r EXCEPT !.path = "noip"])

\* the two early returns of rateLimiter
Unidentified(r) == CallNext([r EXCEPT !.path = "noip"])
FailOpen(r) == CallNext([r EXCEPT !.path = "failopen"])

\* the end of rateLimiter, after saveBucketToRedis returned
Finish(r) == IF Allowed(r.tokens) THEN CallNext(r) ELSE Deny(r)

\* ------------------------------------------------------------------ actions

Init ==
    /\ clock = 0
    /\ conn = "connecting"
    /\ isRedisConnected = FALSE
    /\ store = [ip \in IPs |-> Absent]
    /\ queue = <<>>
    /\ last = NoRequest
    /\ nreq = 0
    /\ nback = 0
    /\ admitted = <<>>
    /\ ZipInit

\* rate_limit:ip1 as another writer may have left it before the module
\* starts
ForeignValues == {NotJSON, EmptyObject}
InitStored ==
    /\ clock = 0
    /\ conn = "connecting"
    /\ isRedisConnected = FALSE
    /\ \E data \in ForeignValues :
          store = [ip \in IPs |->
                      IF ip = "ip1"
                      THEN [present |-> TRUE, data |-> data,
                            ttl |-> Milli(RECORD_TTL)]
                      ELSE Absent]
    /\ queue = <<>>
    /\ last = NoRequest
    /\ nreq = 0
    /\ nback = 0
    /\ admitted = <<>>
    /\ ZipInit

\* redisClient.connect() resolves
ConnectResolved ==
    /\ conn = "connecting"
    /\ conn' = "ready"
    /\ isRedisConnected' = TRUE
    /\ UNCHANGED <<clock, store, queue, nreq, nback, admitted>>
    /\ last' = NoRequest

\* redisClient.connect() rejects: the catch only logs
ConnectFailed ==
    /\ conn = "connecting"
    /\ conn' = "end"
    /\ UNCHANGED <<clock, isRedisConnected, store, queue, nreq, nback, admitted>>
    /\ last' = NoRequest

\* the connection drops: 'error' and 'reconnecting' are only logged
ConnectionLost ==
    /\ conn = "ready"
    /\ conn' = "reconnecting"
    /\ UNCHANGED <<clock, isRedisConnected, store, queue, nreq, nback, admitted>>
    /\ last' = NoRequest

\* the client reconnects: 'connect' and 'ready' are only logged
Reconnected ==
    /\ conn = "reconnecting"
    /\ conn' = "ready"
    /\ UNCHANGED <<clock, isRedisConnected, store, queue, nreq, nback, admitted>>
    /\ last' = NoRequest

\* the client gives up reconnecting: 'end' is only logged
ConnectionEnded ==
    /\ conn = "reconnecting"
    /\ conn' = "end"
    /\ UNCHANGED <<clock, isRedisConnected, store, queue, nreq, nback, admitted>>
    /\ last' = NoRequest

\* rateLimiter whose fallback forgets the client: the early return on a false
\* flag also drops the record of the request's identity
rateLimiter_FallbackForgets(req) ==
    LET ip == getClientIP(req) IN
    /\ nreq < MaxRequests
    /\ nreq' = nreq + 1
    /\ IF ip = Null
       THEN /\ last' = Unidentified(NewRequest(ip))
            /\ UNCHANGED <<queue, store>>
       ELSE IF ~isRedisConnected
       THEN /\ last' = FailOpen(NewRequest(ip))
            /\ store' = [store EXCEPT ![ip] = Absent]
            /\ UNCHANGED queue
       ELSE /\ Len(queue) < MaxInFlight
            /\ queue' = Append(queue,
                    [NewRequest(ip) EXCEPT !.path = "metered", !.kind = "get"])
            /\ last' = NoRequest
            /\ UNCHANGED store
    /\ UNCHANGED <<clock, conn, isRedisConnected, nback, admitted>>

\* rateLimiter up to its first await: the two early returns, else the get
rateLimiter(req) ==
    LET ip == getClientIP(req) IN
    /\ nreq < MaxRequests
    /\ nreq' = nreq + 1
    /\ IF ip = Null
       THEN /\ last' = Unidentified(NewRequest(ip))
            /\ UNCHANGED queue
       ELSE IF ~isRedisConnected
       THEN /\ last' = FailOpen(NewRequest(ip))
            /\ UNCHANGED queue
       ELSE /\ Len(queue) < MaxInFlight
            /\ queue' = Append(queue,
                    [NewRequest(ip) EXCEPT !.path = "metered", !.kind = "get"])
            /\ last' = NoRequest
    /\ UNCHANGED <<clock, conn, isRedisConnected, store, nback, admitted>>

\* the get is answered or rejected, the deny path answering without calling
\* saveBucketToRedis
GetAnswered_DenySkipsSave(ok) ==
    /\ queue # <<>>
    /\ Head(queue).kind = "get"
    /\ Head(queue).path = "metered"
    /\ ok => conn = "ready"
    /\ LET r == Head(queue)
           bucket == getBucketFromRedis(store[r.ip], ok)
           available == calculateAvailableTokens(bucket, r.now)
           r2 == [r EXCEPT !.raw = IF ok THEN store[r.ip].data ELSE <<>>,
                           !.snap = bucket, !.snapOk = ok,
                           !.lastRefill = available.lastRefill,
                           !.tokens = available.tokens,
                           !.toSave = BucketToSave(available, r.now)]
       IN IF isRedisConnected /\ Allowed(available.tokens)
          THEN /\ queue' = Append(Tail(queue), [r2 EXCEPT !.kind = "set"])
               /\ last' = NoRequest
          ELSE /\ queue' = Tail(queue)
               /\ last' = Finish([r2 EXCEPT !.saved = "skipped"])
    /\ UNCHANGED <<clock, conn, isRedisConnected, store, nreq, nback, admitted>>

\* the get is answered (ok) or rejected: calculateAvailableTokens, the test,
\* and saveBucketToRedis up to its await
GetAnswered(ok) ==
    /\ queue # <<>>
    /\ Head(queue).kind = "get"
    /\ Head(queue).path = "metered"
    /\ ok => conn = "ready"
    /\ LET r == Head(queue)
           bucket == getBucketFromRedis(store[r.ip], ok)
           available == calculateAvailableTokens(bucket, r.now)
           r2 == [r EXCEPT !.raw = IF ok THEN store[r.ip].data ELSE <<>>,
                           !.snap = bucket, !.snapOk = ok,
                           !.lastRefill = available.lastRefill,
                           !.tokens = available.tokens,
                           !.toSave = BucketToSave(available, r.now)]
       IN IF isRedisConnected
          THEN /\ queue' = Append(Tail(queue), [r2 EXCEPT !.kind = "set"])
               /\ last' = NoRequest
          ELSE /\ queue' = Tail(queue)
               /\ last' = Finish([r2 EXCEPT !.saved = "skipped"])
    /\ UNCHANGED <<clock, conn, isRedisConnected, store, nreq, nback, admitted>>

\* whether the log of the logging variant's calculateAvailableTokens throws:
\* bucket.tokens.toFixed(2) on a bucket whose tokens is not a number
LogThrows(bucket) == bucket.present /\ bucket.tokens \in {Undefined, JSnull}

\* GetAnswered in the variant of the module that logs every step
GetAnsweredLogged(ok) ==
    /\ queue # <<>>
    /\ Head(queue).kind = "get"
    /\ Head(queue).path = "metered"
    /\ ok => conn = "ready"
    /\ LET r == Head(queue)
           bucket == getBucketFromRedis(store[r.ip], ok)
       IN IF LogThrows(bucket)
          THEN /\ queue' = Tail(queue)
               /\ last' = Reject([r EXCEPT !.raw = store[r.ip].data,
                                           !.snap = bucket, !.snapOk = ok])
               /\ UNCHANGED <<clock, conn, isRedisConnected, store, nreq, nback, admitted>>
          ELSE GetAnswered(ok)

\* the setEx is answered (ok) or rejected (caught and logged), and
\* rateLimiter ends
SetAnswered(ok) ==
    /\ queue # <<>>
    /\ Head(queue).kind = "set"
    /\ ok => conn = "ready"
    /\ LET r == Head(queue) IN
       /\ store' = saveBucketToRedis(store, r.ip, r.toSave, ok)
       /\ last' = Finish([r EXCEPT !.saved = IF ok THEN "ok" ELSE "failed"])
    /\ queue' = Tail(queue)
    /\ UNCHANGED <<clock, conn, isRedisConnected, nreq, nback, admitted>>

\* closeRedisConnection up to its await
closeRedisConnection ==
    /\ isRedisConnected
    /\ Len(queue) < MaxInFlight
    /\ queue' = Append(queue, [NoRequest EXCEPT !.kind = "quit"])
    /\ UNCHANGED <<clock, conn, isRedisConnected, store, nreq, nback, admitted>>
    /\ last' = NoRequest

\* the quit is answered: the connection is closed and the flag cleared
QuitAnswered ==
    /\ queue # <<>>
    /\ Head(queue).kind = "quit"
    /\ conn = "ready"
    /\ conn' = "end"
    /\ isRedisConnected' = FALSE
    /\ queue' = Tail(queue)
    /\ UNCHANGED <<clock, store, nreq, nback, admitted>>
    /\ last' = NoRequest

\* the quit is rejected: closeRedisConnection throws before clearing the flag
QuitRejected ==
    /\ queue # <<>>
    /\ Head(queue).kind = "quit"
    /\ queue' = Tail(queue)
    /\ UNCHANGED <<clock, conn, isRedisConnected, store, nreq, nback, admitted>>
    /\ last' = NoRequest

\* time passes
Tick(d) ==
    /\ (clock % IdleGap) + d <= MaxNow
    /\ clock' = clock + d
    /\ store' = Expire(store, d)
    /\ UNCHANGED <<conn, isRedisConnected, queue, nreq, nback, admitted>>
    /\ last' = NoRequest

\* nothing happens for a full record TTL
Idle ==
    /\ clock < IdleGap
    /\ queue = <<>>
    /\ clock' = clock + IdleGap
    /\ store' = Expire(store, IdleGap)
    /\ UNCHANGED <<conn, isRedisConnected, queue, nreq, nback, admitted>>
    /\ last' = NoRequest

\* the wall clock is set back
ClockSetBack(d) ==
    /\ nback < MaxSetBacks
    /\ clock % IdleGap >= d
    /\ clock' = clock - d
    /\ nback' = nback + 1
    /\ UNCHANGED <<conn, isRedisConnected, store, queue, nreq, admitted>>
    /\ last' = NoRequest

\* what getBucketStats returns for the bucket calculateAvailableTokens
\* computed; new Date(lastRefill).toISOString() throws on an invalid date
StatsResult(r, available) ==
    LET r2 == [r EXCEPT !.lastRefill = available.lastRefill,
                        !.tokens = available.tokens]
    IN IF ToNumber(available.lastRefill) = NaN
       THEN Reject(r2)
       ELSE [r2 EXCEPT !.outcome = "stats", !.kind = "done",
                       !.availableTokens = toFixed2(available.tokens),
                       !.maxTokens = MAX_TOKENS,
                       !.tokensPerSecond = TOKENS_PER_SECOND,
                       !.tokenCost = TOKEN_COST,
                       !.isoLastRefill =
                           toISOString(ToNumber(available.lastRefill))]

\* getBucketStats up to its await: the get of calculateAvailableTokens, or
\* the fresh bucket at once while the flag is false
getBucketStats(ip) ==
    /\ nreq < MaxRequests
    /\ nreq' = nreq + 1
    /\ IF ~isRedisConnected
       THEN /\ last' = StatsResult([NewRequest(ip) EXCEPT !.path = "stats"],
                    calculateAvailableTokens(
                        getBucketFromRedis(store[ip], FALSE), clock))
            /\ UNCHANGED queue
       ELSE /\ Len(queue) < MaxInFlight
            /\ queue' = Append(queue,
                    [NewRequest(ip) EXCEPT !.path = "stats", !.kind = "get"])
            /\ last' = NoRequest
    /\ UNCHANGED <<clock, conn, isRedisConnected, store, nback, admitted>>

\* the get of getBucketStats is answered (ok) or rejected: the rest of
\* calculateAvailableTokens and the object returned
StatsAnswered(ok) ==
    /\ queue # <<>>
    /\ Head(queue).kind = "get"
    /\ Head(queue).path = "stats"
    /\ ok => conn = "ready"
    /\ LET r == Head(queue)
           bucket == getBucketFromRedis(store[r.ip], ok)
           available == calculateAvailableTokens(bucket, r.now)
           r2 == [r EXCEPT !.raw = IF ok THEN store[r.ip].data ELSE <<>>,
                           !.snap = bucket, !.snapOk = ok]
       IN last' = StatsResult(r2, available)
    /\ queue' = Tail(queue)
    /\ UNCHANGED <<clock, conn, isRedisConnected, store, nreq, nback, admitted>>

\* a whole rateLimiter call with nothing in between: the connection is up,
\* no other command is outstanding, get and setEx are answered at once
Serve(req) ==
    LET ip == getClientIP(req)
        r == [NewRequest(ip) EXCEPT !.path = "metered"]
        bucket == getBucketFromRedis(store[ip], TRUE)
        available == calculateAvailableTokens(bucket, r.now)
        r2 == [r EXCEPT !.raw = store[ip].data,
                        !.snap = bucket, !.snapOk = TRUE,
                        !.lastRefill = available.lastRefill,
                        !.tokens = available.tokens,
                        !.toSave = BucketToSave(available, r.now),
                        !.saved = "ok"]
    IN /\ ip # Null
       /\ isRedisConnected
       /\ conn = "ready"
       /\ queue = <<>>
       /\ store' = saveBucketToRedis(store, ip, r2.toSave, TRUE)
       /\ last' = Finish(r2)
       /\ admitted' = IF Allowed(available.tokens)
                      THEN Append(admitted, r.now)
                      ELSE admitted
       /\ UNCHANGED <<clock, conn, isRedisConnected, queue, nreq, nback>>

\* ------------------------------------------------------------ POST /zip

\* the message the handler of POST /zip builds: tags and requestType (its
\* timestamp is read by nobody), and no prenom
ZipMessage(tags) == MessageData(tags, "zip", Null)

\* the handler of POST /zip up to its await: 400 without tags, else the
\* message is handed to sendMessage
Route(tags) ==
    IF tags = Null
    THEN /\ reply' = [status |-> 400, tags |-> tags]
         /\ UNCHANGED sending
    ELSE /\ sending' = Append(sending, ZipMessage(tags))
         /\ reply' = NoReply

\* a chain that runs the handler whatever rateLimiter did
After_Always(tags) == Route(tags)

\* app.post('/zip', rateLimiter, handler) once rateLimiter is done with a
\* request: the handler runs if rateLimiter called next(), else the
\* response is the one rateLimiter sent, or none
After(tags) ==
    IF last'.outcome = "next"
    THEN Route(tags)
    ELSE /\ reply' = [status |-> last'.status, tags |-> tags]
         /\ UNCHANGED sending

\* a POST /zip enters rateLimiter: done at once, or waiting for its get
Enter(tags) ==
    /\ IF last'.kind = "done"
       THEN /\ After(tags)
            /\ UNCHANGED waiting
       ELSE /\ waiting' = Append(waiting, tags)
            /\ UNCHANGED <<sending, reply>>
    /\ UNCHANGED <<topic, handled, zipFilesStore, files>>

\* a command of rateLimiter is answered: the request is done, or waits for
\* its setEx
Leave ==
    /\ IF last'.kind = "done"
       THEN /\ After(Head(waiting))
            /\ waiting' = Tail(waiting)
       ELSE /\ waiting' = Append(Tail(waiting), Head(waiting))
            /\ UNCHANGED <<sending, reply>>
    /\ UNCHANGED <<topic, handled, zipFilesStore, files>>

\* a message as it waits on the subscription
Queued(data, origin) ==
    [NoDelivery EXCEPT !.data = data, !.origin = origin, !.stage = "queued"]

\* sendMessage resolves (the message is published) or rejects: 202 or 500
SendAnswered(ok) ==
    /\ sending # <<>>
    /\ sending' = Tail(sending)
    /\ IF ok
       THEN /\ topic' = Append(topic, Queued(Head(sending), "route"))
            /\ reply' = [status |-> 202, tags |-> Head(sending).tags]
       ELSE /\ UNCHANGED topic
            /\ reply' = [status |-> 500, tags |-> Head(sending).tags]
    /\ handled' = NoDelivery
    /\ last' = NoRequest
    /\ UNCHANGED <<clock, conn, isRedisConnected, store, queue, nreq, nback,
                   admitted, waiting, zipFilesStore, files>>

\* another publisher puts a message on the topic
OtherPublish(data) ==
    /\ Len(sending) + Len(topic) < MaxInFlight
    /\ topic' = Append(topic, Queued(data, "other"))
    /\ reply' = NoReply
    /\ handled' = NoDelivery
    /\ last' = NoRequest
    /\ UNCHANGED <<clock, conn, isRedisConnected, store, queue, nreq, nback,
                   admitted, waiting, sending, zipFilesStore, files>>

\* --------------------------------------------------------- the listener

\* the sequence without its i-th element
Without(seq, i) == SubSeq(seq, 1, i - 1) \o SubSeq(seq, i + 1, Len(seq))

\* message.ack() and message.nack()
Ack(m) == [m EXCEPT !.acks = @ + 1]
Nack(m) == [m EXCEPT !.nacks = @ + 1]

\* the handler returns having acked: the message leaves the subscription
Acked(i, m) ==
    /\ topic' = Without(topic, i)
    /\ handled' = [m EXCEPT !.stage = "done"]

\* the catch of the handler: the message is nacked and will be redelivered
Thrown(i, m) ==
    LET n == Nack([m EXCEPT !.threw = TRUE]) IN
    /\ topic' = [topic EXCEPT ![i] = Queued(m.data, m.origin)]
    /\ handled' = [n EXCEPT !.stage = "done"]

\* what a step of the listener leaves alone
ListenerFrame ==
    /\ reply' = NoReply
    /\ last' = NoRequest
    /\ UNCHANGED <<clock, conn, isRedisConnected, store, queue, nreq, nback,
                   admitted, waiting, sending>>

\* messageHandler whose skip of a message without prenom does not return:
\* the message is acked, the job starts anyway and its end acks again
Deliver_SkipFallsThrough(i) ==
    /\ i \in 1..Len(topic)
    /\ topic[i].stage = "queued"
    /\ LET m == topic[i]
           d == m.data
       IN IF d.form = "null"
          THEN Thrown(i, m)
          ELSE IF d.tags # Null /\ d.requestType = "zip"
          THEN /\ topic' = [topic EXCEPT ![i] =
                       [(IF d.prenom = Null THEN Ack(m) ELSE m)
                           EXCEPT !.stage = "archive", !.routed = TRUE]]
               /\ handled' = NoDelivery
          ELSE Acked(i, Ack(m))
    /\ UNCHANGED <<zipFilesStore, files>>
    /\ ListenerFrame

\* messageHandler up to its first await: the message is parsed, then skipped
\* and acked, or handed to processZipJob, which calls getFlickrPhotos;
\* messageData.tags on the value of the JSON text null throws
Deliver(i) ==
    /\ i \in 1..Len(topic)
    /\ topic[i].stage = "queued"
    /\ LET m == topic[i]
           d == m.data
       IN IF d.form = "null"
          THEN Thrown(i, m)
          ELSE IF d.tags # Null /\ d.requestType = "zip"
          THEN IF d.prenom = Null
               THEN Acked(i, Ack(m))
               ELSE /\ topic' = [topic EXCEPT ![i] =
                            [m EXCEPT !.stage = "archive", !.routed = TRUE]]
                    /\ handled' = NoDelivery
          ELSE Acked(i, Ack(m))
    /\ UNCHANGED <<zipFilesStore, files>>
    /\ ListenerFrame

\* an await of processZipJob at stage `at` ends for message i: the job goes
\* on to stage `to`, or the await throws and the handler nacks
Await(i, at, to, ok) ==
    /\ i \in 1..Len(topic)
    /\ topic[i].stage = at
    /\ IF ok
       THEN /\ topic' = [topic EXCEPT ![i].stage = to]
            /\ handled' = NoDelivery
       ELSE Thrown(i, topic[i])

\* the filename of the archive: photos-<tags>-<Date.now()>.zip
Filename(tags) == <<tags, clock>>

\* getFlickrPhotos, addFilesToZip and the archive end, and the upload starts
\* under a filename made of the tags and Date.now(); or getFlickrPhotos
\* rejects or a photo cannot be added
ZipBuilt(i, ok) ==
    /\ i \in 1..Len(topic)
    /\ topic[i].stage = "archive"
    /\ IF ok
       THEN /\ topic' = [topic EXCEPT ![i].stage = "upload",
                                       ![i].filename =
                                           Filename(topic[i].data.tags)]
            /\ handled' = NoDelivery
       ELSE Thrown(i, topic[i])
    /\ UNCHANGED <<zipFilesStore, files>>
    /\ ListenerFrame

\* the upload stream finishes (the file is in the bucket) or errors
UploadEnded(i, ok) ==
    /\ Await(i, "upload", "sign", ok)
    /\ files' = IF ok THEN files \cup {topic[i].filename} ELSE files
    /\ UNCHANGED zipFilesStore
    /\ ListenerFrame

\* processZipJob recording the filename before it awaits file.getSignedUrl:
\* the Map is set also when no signed URL could be generated
SignedUrlAnswered_SetEarly(i, ok) ==
    /\ Await(i, "sign", "firebase", ok)
    /\ zipFilesStore' =
           [zipFilesStore EXCEPT ![topic[i].data.tags] = topic[i].filename]
    /\ UNCHANGED files
    /\ ListenerFrame

\* file.getSignedUrl resolves: zipFilesStore.set(tags, filename), then
\* saveZipDataToFirebase is called; or it rejects
SignedUrlAnswered(i, ok) ==
    /\ Await(i, "sign", "firebase", ok)
    /\ zipFilesStore' =
           IF ok
           THEN [zipFilesStore EXCEPT ![topic[i].data.tags] =
                                          topic[i].filename]
           ELSE zipFilesStore
    /\ UNCHANGED files
    /\ ListenerFrame

\* saveZipDataToFirebase resolves: processZipJob returns and the handler
\* acks; or it rejects
FirebaseAnswered(i, ok) ==
    /\ i \in 1..Len(topic)
    /\ topic[i].stage = "firebase"
    /\ IF ok
       THEN Acked(i, Ack(topic[i]))
       ELSE Thrown(i, topic[i])
    /\ UNCHANGED <<zipFilesStore, files>>
    /\ ListenerFrame

Next ==
    \/ ConnectResolved /\ UNCHANGED zipvars
    \/ ConnectFailed /\ UNCHANGED zipvars
    \/ ConnectionLost /\ UNCHANGED zipvars
    \/ Reconnected /\ UNCHANGED zipvars
    \/ ConnectionEnded /\ UNCHANGED zipvars
    \/ \E req \in OneClient : rateLimiter(req) /\ UNCHANGED zipvars
    \/ \E ok \in BOOLEAN : GetAnswered(ok) /\ UNCHANGED zipvars
    \/ \E ok \in BOOLEAN : SetAnswered(ok) /\ UNCHANGED zipvars
    \/ closeRedisConnection /\ UNCHANGED zipvars
    \/ QuitAnswered /\ UNCHANGED zipvars
    \/ QuitRejected /\ UNCHANGED zipvars
    \/ \E d \in Delays : Tick(d) /\ UNCHANGED zipvars
    \/ Idle /\ UNCHANGED zipvars
    \/ \E d \in BackSteps : ClockSetBack(d) /\ UNCHANGED zipvars

Spec == Init /\ [][Next]_vars

\* the module started over a store that already holds a value under
\* rate_limit:ip1
SpecStored == InitStored /\ [][Next]_vars

\* the same for the variant of the module that logs every step
NextLogged ==
    \/ ConnectResolved /\ UNCHANGED zipvars
    \/ ConnectFailed /\ UNCHANGED zipvars
    \/ ConnectionLost /\ UNCHANGED zipvars
    \/ Reconnected /\ UNCHANGED zipvars
    \/ ConnectionEnded /\ UNCHANGED zipvars
    \/ \E req \in OneClient : rateLimiter(req) /\ UNCHANGED zipvars
    \/ \E ok \in BOOLEAN : GetAnsweredLogged(ok) /\ UNCHANGED zipvars
    \/ \E ok \in BOOLEAN : SetAnswered(ok) /\ UNCHANGED zipvars
    \/ closeRedisConnection /\ UNCHANGED zipvars
    \/ QuitAnswered /\ UNCHANGED zipvars
    \/ QuitRejected /\ UNCHANGED zipvars
    \/ \E d \in Delays : Tick(d) /\ UNCHANGED zipvars
    \/ Idle /\ UNCHANGED zipvars
    \/ \E d \in BackSteps : ClockSetBack(d) /\ UNCHANGED zipvars

SpecLogged == InitStored /\ [][NextLogged]_vars

\* two clients on a connection that stays up, get and setEx answered or
\* rejected
NextTwoClients ==
    \/ ConnectResolved /\ UNCHANGED zipvars
    \/ \E req \in TwoClients : rateLimiter(req) /\ UNCHANGED zipvars
    \/ \E ok \in BOOLEAN : GetAnswered(ok) /\ UNCHANGED zipvars
    \/ \E ok \in BOOLEAN : SetAnswered(ok) /\ UNCHANGED zipvars
    \/ \E d \in Delays : Tick(d) /\ UNCHANGED zipvars

SpecTwoClients == Init /\ [][NextTwoClients]_vars

\* two clients and getBucketStats called at any time, over a store that
\* already holds a value under rate_limit:ip1
NextStats ==
    \/ ConnectResolved /\ UNCHANGED zipvars
    \/ \E req \in TwoClients : rateLimiter(req) /\ UNCHANGED zipvars
    \/ \E ok \in BOOLEAN : GetAnswered(ok) /\ UNCHANGED zipvars
    \/ \E ok \in BOOLEAN : SetAnswered(ok) /\ UNCHANGED zipvars
    \/ \E ip \in IPs : getBucketStats(ip) /\ UNCHANGED zipvars
    \/ \E ok \in BOOLEAN : StatsAnswered(ok) /\ UNCHANGED zipvars
    \/ \E d \in Delays : Tick(d) /\ UNCHANGED zipvars

SpecStats == InitStored /\ [][NextStats]_vars

\* one client served one request at a time, on a connection that stays up
\* and a clock that only goes forward
NextSequential ==
    \/ ConnectResolved /\ UNCHANGED zipvars
    \/ \E req \in OneClient : Serve(req) /\ UNCHANGED zipvars
    \/ \E d \in Delays \cup ShortDelays : Tick(d) /\ UNCHANGED zipvars
    \/ Idle /\ UNCHANGED zipvars

SpecSequential == Init /\ [][NextSequential]_vars

\* POST /zip behind rateLimiter, for one client
NextZip ==
    \/ ConnectResolved /\ UNCHANGED zipvars
    \/ \E req \in OneClient, tags \in Tags \cup {Null} :
          rateLimiter(req) /\ Enter(tags)
    \/ \E ok \in BOOLEAN : GetAnswered(ok) /\ Leave
    \/ \E ok \in BOOLEAN : SetAnswered(ok) /\ Leave
    \/ \E ok \in BOOLEAN : SendAnswered(ok)
    \/ \E d \in Delays : Tick(d) /\ UNCHANGED zipvars

SpecZip == Init /\ [][NextZip]_vars

\* POST /zip while rateLimiter lets everything through, other publishers,
\* and the listener of the same process
NextWorker ==
    \/ \E req \in OneClient, tags \in Tags \cup {Null} :
          /\ Len(sending) + Len(topic) < MaxInFlight
          /\ rateLimiter(req)
          /\ Enter(tags)
    \/ \E ok \in BOOLEAN : SendAnswered(ok)
    \/ \E data \in OtherMessages : OtherPublish(data)
    \/ \E i \in 1..Len(topic) : Deliver(i)
    \/ \E i \in 1..Len(topic), ok \in BOOLEAN : ZipBuilt(i, ok)
    \/ \E i \in 1..Len(topic), ok \in BOOLEAN : UploadEnded(i, ok)
    \/ \E i \in 1..Len(topic), ok \in BOOLEAN : SignedUrlAnswered(i, ok)
    \/ \E i \in 1..Len(topic), ok \in BOOLEAN : FirebaseAnswered(i, ok)

SpecWorker == Init /\ [][NextWorker]_vars

TypeOK ==
    /\ clock \in Nat
    /\ conn \in {"connecting", "ready", "reconnecting", "end"}
    /\ isRedisConnected \in BOOLEAN
    /\ Len(queue) <= MaxInFlight

\* ------------------------------------------------------- what the claims use

\* the requests past their read: those waiting for their setEx, and the one
\* the latest step completed on the metered path
Computed ==
    {queue[i] : i \in {j \in 1..Len(queue) : queue[j].kind = "set"}}
        \cup (IF last.path = "metered" THEN {last} ELSE {})

\* the bucket the store holds for ip
Stored(ip) == JSONparse(store[ip].data)

\* the refill of the algorithm, written out: stored tokens plus elapsed
\* milliseconds times the rate, capped at the bucket size
Refilled(bucket, now) ==
    LET t == bucket.tokens + (now - bucket.lastRefill) * TOKENS_PER_SECOND
    IN IF t > MAX_TOKENS * MS THEN MAX_TOKENS * MS ELSE t

\* ------------------------------------------------------------------- claims

\* C1: a request that enters rateLimiter while isRedisConnected is false is
\* admitted (next() is called), whatever the store holds for its identity.
C1_FailOpenAdmits ==
    (last.kind = "done" /\ ~last.startFlag) => last.outcome = "next"

\* C1 witness: a request admitted by the fallback although the bucket of its
\* identity holds fewer tokens than a request costs.
C1_Witness ==
    /\ last.path = "failopen"
    /\ last.outcome = "next"
    /\ store[last.ip].present
    /\ Stored(last.ip).tokens < TOKEN_COST * MS

\* C2: on the metered path the request is admitted exactly when the computed
\* token count is at least the cost (equality admits), else answered 429.
C2_AdmitIffEnoughTokens ==
    last.path = "metered" =>
        /\ last.tokens = (IF last.snap.present
                          THEN Refilled(last.snap, last.now)
                          ELSE MAX_TOKENS * MS)
        /\ last.outcome \in {"next", "429"}
        /\ (last.outcome = "next") <=> (last.tokens >= TOKEN_COST * MS)
        /\ (last.outcome = "429") <=> (last.status = 429)

\* C2 witness: a request admitted with exactly the cost available, from a
\* stored bucket.
C2_Witness ==
    /\ last.path = "metered"
    /\ last.snap.present
    /\ last.tokens = TOKEN_COST * MS
    /\ last.outcome = "next"

\* C3: after a successful write on the admit path the store holds exactly
\* {tokens: tokens - cost, lastRefill: now}, now being the request's instant.
C3_AdmitWritesDebitAndNow ==
    (last.path = "metered" /\ last.saved = "ok"
        /\ last.tokens >= TOKEN_COST * MS) =>
        /\ store[last.ip].present
        /\ Stored(last.ip) = Bucket(last.now, last.tokens - TOKEN_COST * MS)

\* C3 witness: an admitted request whose snapshot carried another anchor than
\* the request's instant, written with the request's instant.
C3_Witness ==
    /\ last.path = "metered" /\ last.saved = "ok"
    /\ last.outcome = "next"
    /\ last.snap.present
    /\ last.snap.lastRefill # last.now
    /\ Stored(last.ip).lastRefill = last.now

\* C4: after a successful write on the deny path the store holds the computed
\* token count undebited, and lastRefill set to the request's instant.
C4_DenyWritesTokensAndNow ==
    (last.path = "metered" /\ last.saved = "ok"
        /\ last.tokens < TOKEN_COST * MS) =>
        /\ store[last.ip].present
        /\ Stored(last.ip) = Bucket(last.now, last.tokens)

\* C4 witness: a denied request that found a partial refill and wrote it back
\* with a new anchor.
C4_Witness ==
    /\ last.path = "metered" /\ last.saved = "ok"
    /\ last.outcome = "429"
    /\ last.snap.present
    /\ last.snap.lastRefill # last.now
    /\ last.tokens > last.snap.tokens
    /\ Stored(last.ip) = Bucket(last.now, last.tokens)

\* C5: every bucket record in the store has 0 <= tokens <= maxTokens.
C5_StoredTokensInRange ==
    \A ip \in IPs :
        store[ip].present =>
            /\ 0 <= Stored(ip).tokens
            /\ Stored(ip).tokens <= MAX_TOKENS * MS

\* C6: the token count calculateAvailableTokens returns never exceeds
\* maxTokens.
C6_CeilingClamp ==
    \A r \in Computed : r.tokens <= MAX_TOKENS * MS

\* C6 witness: a read whose stored tokens plus refill exceed the ceiling.
C6_Witness ==
    \E r \in Computed :
        /\ r.snap.present
        /\ r.snap.tokens + (r.now - r.snap.lastRefill) * TOKENS_PER_SECOND
                > MAX_TOKENS * MS
        /\ r.tokens = MAX_TOKENS * MS

\* C7: when the request's instant is earlier than the stored lastRefill, the
\* computed token count equals the stored token count.
C7_NoNegativeElapsed ==
    \A r \in Computed :
        (r.snap.present /\ r.now < r.snap.lastRefill) =>
            r.tokens = r.snap.tokens

\* C8: two requests of one identity whose reads were both answered before
\* either write, from the same snapshot at the same instant with tokens for
\* one request, are both admitted and both write the same debited count.
C8_RaceBothAdmitted ==
    \A i, j \in 1..Len(queue) :
        (/\ i < j
         /\ queue[i].kind = "set" /\ queue[j].kind = "set"
         /\ queue[i].ip = queue[j].ip
         /\ queue[i].snap = queue[j].snap
         /\ queue[i].now = queue[j].now
         /\ queue[i].tokens >= TOKEN_COST * MS) =>
            /\ queue[j].tokens = queue[i].tokens
            /\ queue[i].toSave = Bucket(queue[i].now, queue[i].tokens - TOKEN_COST * MS)
            /\ queue[j].toSave = queue[i].toSave

\* C8 witness: two admitted requests of one identity in flight together, both
\* about to write, computed from a stored bucket that held tokens for one.
C8_Witness ==
    /\ Len(queue) = 2
    /\ queue[1].kind = "set" /\ queue[2].kind = "set"
    /\ queue[1].ip = queue[2].ip
    /\ queue[1].snap.present
    /\ queue[1].snap = queue[2].snap
    /\ queue[1].tokens >= TOKEN_COST * MS
    /\ queue[1].tokens < 2 * TOKEN_COST * MS
    /\ queue[2].tokens >= TOKEN_COST * MS
    /\ queue[2].toSave = queue[1].toSave

\* C9: the limiter takes the store as available only while the connection is
\* ready.
C9_AvailableOnlyWhileReady ==
    isRedisConnected => conn = "ready"

\* C10: with maxTokens=10, 1 token per second and cost 10: a fresh client is
\* admitted and left with 0 tokens; a second request at the same instant is
\* denied with requiredTokens=10 and retryAfter=10; a request that many
\* seconds after a bucket was left at 0 is admitted.
C10_DenialScenario ==
    last.path = "metered" =>
        /\ ~last.snap.present =>
              (last.outcome = "next" /\ last.toSave.tokens = 0)
        /\ last.snap = Bucket(last.now, 0) =>
              /\ last.outcome = "429"
              /\ last.requiredTokens = 10
              /\ last.retryAfter = 10
        /\ (/\ last.snap.present
            /\ last.snap.tokens = 0
            /\ last.now - last.snap.lastRefill >= 10 * MS) =>
              last.outcome = "next"

\* C10 witness: the third request of the scenario: it finds the bucket at 0
\* tokens, anchored ten seconds earlier, and is admitted.
C10_Witness ==
    /\ nreq = 3
    /\ last.path = "metered"
    /\ last.snap.present
    /\ last.snap.tokens = 0
    /\ last.now = last.snap.lastRefill + 10 * MS
    /\ last.outcome = "next"

\* C11: on every denial the retryAfter of the response is the least whole
\* number of seconds in which (TOKEN_COST - tokens) tokens are refilled at
\* TOKENS_PER_SECOND, tokens being the count computed for this request
C11_RetryAfterIsCeiling ==
    (last.outcome = "429") =>
        LET needed == TOKEN_COST * MS - last.tokens
            perSecond == TOKENS_PER_SECOND * MS
        IN /\ last.retryAfter * perSecond >= needed
           /\ (last.retryAfter - 1) * perSecond < needed

\* a denial whose missing tokens are not a whole number of seconds away
C11_Witness ==
    /\ last.outcome = "429"
    /\ last.path = "metered"
    /\ (TOKEN_COST * MS - last.tokens) % (TOKENS_PER_SECOND * MS) # 0
    /\ last.retryAfter > 0


\* C12: a request with neither an x-forwarded-for header nor a remote address
\* calls next() whatever the store holds and whatever the connection is, and
\* the step that handles it issues no command and leaves the store as it was
C12_UnidentifiedAdmitted ==
    [][(last'.kind = "done" /\ last'.ip = Null) =>
            /\ last'.outcome = "next"
            /\ last'.status = 0
            /\ queue' = queue
            /\ store' = store]_vars

\* such a request admitted while the store is reachable, holds an exhausted
\* bucket and another request is being metered
C12_Witness ==
    /\ last.kind = "done"
    /\ last.ip = Null
    /\ last.outcome = "next"
    /\ isRedisConnected
    /\ conn = "ready"
    /\ queue # <<>>
    /\ store["ip1"].present
    /\ Stored("ip1").tokens < TOKEN_COST * MS


\* C14: every request ends with exactly one of next() and the 429 response:
\* a request that issues no command is answered in the step that starts it,
\* a request whose last store call is answered or rejected is answered in
\* that step, and an answered request has either called next() and sent
\* nothing, or sent the 429 and not called next()
C14_ExactlyOneOutcome ==
    [][/\ (last'.kind = "done") =>
              \/ last'.outcome = "next" /\ last'.status = 0
              \/ last'.outcome = "429" /\ last'.status = 429
       /\ (nreq' # nreq /\ queue' = queue) => last'.kind = "done"
       /\ (/\ queue # <<>>
           /\ Head(queue).kind \in {"get", "set"}
           /\ Len(queue') < Len(queue)) =>
              /\ last'.kind = "done"
              /\ last'.ip = Head(queue).ip
              /\ last'.now = Head(queue).now]_vars

\* a request denied, and only denied, although its setEx was rejected
C14_Witness ==
    /\ last.kind = "done"
    /\ last.outcome = "429"
    /\ last.status = 429
    /\ last.saved = "failed"


\* C13: when the store answers that it holds no record of the identity,
\* calculateAvailableTokens returns tokens = MAX_TOKENS and lastRefill = the
\* now of the request, and with MAX_TOKENS >= TOKEN_COST the request calls
\* next()
C13_FreshClientFull ==
    /\ \A r \in Computed :
          (r.snapOk /\ ~r.snap.present) =>
              /\ r.tokens = MAX_TOKENS * MS
              /\ r.lastRefill = r.now
    /\ (/\ last.path = "metered"
        /\ last.snapOk
        /\ ~last.snap.present
        /\ MAX_TOKENS >= TOKEN_COST) => last.outcome = "next"

\* a request admitted on a full bucket because the store held no record of
\* its identity, a full record lifetime after the start
C13_Witness ==
    /\ last.path = "metered"
    /\ last.snapOk
    /\ ~last.snap.present
    /\ last.now >= IdleGap
    /\ last.tokens = MAX_TOKENS * MS
    /\ last.lastRefill = last.now
    /\ last.outcome = "next"

\* C16: when the get is rejected while the flag says connected, the request
\* is evaluated as if the store held no record: on MAX_TOKENS tokens, and it
\* calls next()
C16_GetFailureIsAbsent ==
    /\ \A r \in Computed :
          ~r.snapOk =>
              /\ ~r.snap.present
              /\ r.startFlag
              /\ r.tokens = MAX_TOKENS * MS
              /\ r.lastRefill = r.now
    /\ (last.path = "metered" /\ ~last.snapOk) => last.outcome = "next"

\* the get of a request is rejected on a ready connection while the store
\* holds an exhausted bucket of its identity written at the same instant, and
\* the request is evaluated on a full bucket
C16_Witness ==
    /\ conn = "ready"
    /\ isRedisConnected
    /\ \E i \in 1..Len(queue) :
          /\ queue[i].kind = "set"
          /\ ~queue[i].snapOk
          /\ queue[i].tokens = MAX_TOKENS * MS
          /\ store[queue[i].ip].present
          /\ Stored(queue[i].ip).tokens < TOKEN_COST * MS
          /\ Stored(queue[i].ip).lastRefill = queue[i].now


\* C17 as stated: when the setEx of a request is rejected, the store is left
\* as it was and the request calls next()
C17_SetFailureStillAdmitted ==
    [][(last'.path = "metered" /\ last'.saved = "failed") =>
            /\ store' = store
            /\ last'.outcome = "next"]_vars

\* C17: when the setEx of a request is rejected, the store is left as it was
\* (value and expiry of every key), the request is answered all the same, and
\* its answer is the one its tokens decide: next() with at least TOKEN_COST
\* tokens, the 429 with fewer
C17_SetFailureNoOp ==
    [][(last'.path = "metered" /\ last'.saved = "failed") =>
            /\ store' = store
            /\ last'.kind = "done"
            /\ (last'.outcome = "next") <=> (last'.tokens >= TOKEN_COST * MS)
            /\ (last'.outcome = "429") <=> (last'.tokens < TOKEN_COST * MS)]_vars

\* a request denied after its setEx was rejected: the store still holds the
\* older record, not the one the request tried to write, with the expiry the
\* older write left running
C17_Witness ==
    /\ last.path = "metered"
    /\ last.saved = "failed"
    /\ last.outcome = "429"
    /\ store[last.ip].present
    /\ Stored(last.ip) # last.toSave
    /\ store[last.ip].ttl < RECORD_TTL * MS


\* C19: every request whose get is answered or rejected while the flag says
\* connected issues one setEx of its bucket under its own key, whether its
\* tokens admit it or not; the write is skipped only when the flag is down;
\* and once the setEx is answered the store holds that bucket
C19_WrittenOnEveryCheck ==
    [][/\ (/\ queue # <<>>
           /\ Head(queue).kind = "get"
           /\ queue' # queue
           /\ Len(queue') <= Len(queue)) =>
              IF isRedisConnected
              THEN /\ Len(queue') = Len(queue)
                   /\ queue'[Len(queue')].kind = "set"
                   /\ queue'[Len(queue')].ip = Head(queue).ip
                   /\ queue'[Len(queue')].toSave.present
                   /\ queue'[Len(queue')].toSave.lastRefill = Head(queue).now
              ELSE last'.saved = "skipped"
       /\ (last'.path = "metered" /\ last'.saved = "ok") =>
              /\ store'[last'.ip].present
              /\ JSONparse(store'[last'.ip].data) = last'.toSave]_vars

\* a denied request whose bucket was written: the store holds the tokens it
\* computed and its now
C19_Witness ==
    /\ last.path = "metered"
    /\ last.outcome = "429"
    /\ last.saved = "ok"
    /\ store[last.ip].present
    /\ Stored(last.ip) = Bucket(last.now, last.tokens)


\* C20: when the setEx of a request has just been answered, the record of its
\* identity has RECORD_TTL seconds to live, whatever it had left before and
\* whether the request is admitted or denied
C20_WriteResetsExpiry ==
    (last.path = "metered" /\ last.saved = "ok") =>
        /\ store[last.ip].present
        /\ store[last.ip].ttl = RECORD_TTL * MS

\* a denied request, seconds after the write that exhausted the bucket, whose
\* own write has put the expiry back to the full 3600 s
C20_Witness ==
    /\ last.path = "metered"
    /\ last.outcome = "429"
    /\ last.saved = "ok"
    /\ last.snap.present
    /\ last.now > last.snap.lastRefill
    /\ store[last.ip].ttl = RECORD_TTL * MS


\* whether a stored text gives back a numeric lastRefill and a numeric tokens
WellFormed(data) == Parses(data) /\ IsNumber(data[1]) /\ IsNumber(data[2])

\* C15: whatever goes wrong inside the limiter (a rejected get, a rejected
\* setEx, a stored value that is not a bucket, a connection lost between the
\* read and the write), no exception leaves rateLimiter: every request that
\* ends has called next() or sent the 429
C15_NoFailureEscapes ==
    (last.kind = "done") => last.outcome \in {"next", "429"}

\* C18: a request that reads a stored value from which a numeric lastRefill
\* and a numeric tokens cannot both be rebuilt is evaluated as if the key were
\* missing, on MAX_TOKENS tokens with lastRefill = now, and raises no error
C18_MalformedIsAbsent ==
    /\ \A r \in Computed \cup {last} :
          (r.snapOk /\ r.raw # <<>> /\ ~WellFormed(r.raw)) =>
              /\ r.tokens = MAX_TOKENS * MS
              /\ r.lastRefill = r.now
    /\ (/\ last.kind = "done"
        /\ last.snapOk
        /\ last.raw # <<>>
        /\ ~WellFormed(last.raw)) => last.outcome = "next"


C22_CloseLeavesUnavailable ==
    [][/\ (/\ Len(queue') > Len(queue)
           /\ queue'[Len(queue')].kind = "quit") => isRedisConnected
       /\ (/\ queue # <<>>
           /\ Head(queue).kind = "quit"
           /\ Len(queue') < Len(queue)) =>
              /\ conn' = "end"
              /\ ~isRedisConnected']_vars


\* C24: when a write replaces the record of an identity by one with fewer
\* tokens, the writer is an admitted request and the new count is the count
\* it computed less TOKEN_COST; a denied request never lowers the stored count
C24_OnlyAdmissionLowersTokens ==
    [][\A ip \in IPs :
          (/\ store[ip].present
           /\ store'[ip].present
           /\ store'[ip].data # store[ip].data
           /\ JSONparse(store'[ip].data).tokens < JSONparse(store[ip].data).tokens) =>
              /\ last'.ip = ip
              /\ last'.outcome = "next"
              /\ JSONparse(store'[ip].data).tokens = last'.tokens - TOKEN_COST * MS]_vars


\* elapsed times, in milliseconds, at which a stored bucket is evaluated
ElapsedSamples == {0, 1, 500, 1000, 2500, 7500, 9999, 10000, 10001, 17500, 25000}

\* the buckets the store holds
StoredBuckets == {JSONparse(store[ip].data) : ip \in {i \in IPs : store[i].present}}

\* for one bucket, the later of two evaluations is the larger one, unless the
\* earlier one was already MAX_TOKENS, and then both are
Increasing(earlier, later) ==
    /\ earlier < MAX_TOKENS * MS => later > earlier
    /\ earlier = MAX_TOKENS * MS => later = MAX_TOKENS * MS

\* C25: evaluated on one stored bucket at two elapsed times,
\* calculateAvailableTokens gives strictly more tokens at the later one until
\* it gives MAX_TOKENS, and MAX_TOKENS from then on; the same holds of two
\* requests that read the same record at different times
C25_RefillIncreasesUntilCeiling ==
    /\ \A b \in StoredBuckets : \A e1, e2 \in ElapsedSamples :
          e1 < e2 =>
              Increasing(calculateAvailableTokens(b, b.lastRefill + e1).tokens,
                         calculateAvailableTokens(b, b.lastRefill + e2).tokens)
    /\ \A r1, r2 \in Computed :
          (r1.snap.present /\ r1.snap = r2.snap /\ r1.now < r2.now) =>
              Increasing(r1.tokens, r2.tokens)

\* two requests read the same exhausted record, one 7.5 s and one 15 s after
\* its write: the first computes 7.5 tokens, the second is at the ceiling
C25_Witness ==
    \E r1, r2 \in Computed :
        /\ r1.snap.present
        /\ r1.snap = r2.snap
        /\ r1.now < r2.now
        /\ r1.tokens > r1.snap.tokens
        /\ r1.tokens < r2.tokens
        /\ r2.tokens = MAX_TOKENS * MS


C29_DenialIsNeutral ==
    (/\ last.path = "metered"
     /\ last.outcome = "429"
     /\ last.saved = "ok"
     /\ last.snap.present) =>
        \A e \in ElapsedSamples :
            calculateAvailableTokens(Stored(last.ip), last.now + e).tokens =
                calculateAvailableTokens(last.snap, last.now + e).tokens

\* a request denied on 7.5 tokens, 7.5 s after the write that emptied the
\* bucket, has rewritten the record with its own now
C29_Witness ==
    /\ last.path = "metered"
    /\ last.outcome = "429"
    /\ last.saved = "ok"
    /\ last.snap.present
    /\ last.now > last.snap.lastRefill
    /\ last.tokens > last.snap.tokens
    /\ Stored(last.ip) = Bucket(last.now, last.tokens)
    /\ nback = 0


\* C26: the identity rateLimiter works with is the x-forwarded-for header
\* whenever the request has one, also when the socket has a remote address;
\* without a header it is the remote address; and it is null exactly when the
\* request has neither
C26_HeaderThenPeer ==
    [][\A req \in Requests :
          rateLimiter(req) =>
              LET r == IF queue' # queue THEN queue'[Len(queue')] ELSE last'
              IN /\ req.xff # Null => r.ip = req.xff
                 /\ (req.xff = Null /\ req.remote # Null) => r.ip = req.remote
                 /\ (r.ip = Null) <=> (req.xff = Null /\ req.remote = Null)]_vars

\* a request whose header says ip1 and whose peer is ip2 has been metered as
\* ip1, while the store also holds a record of ip2
C26_Witness ==
    /\ last.path = "metered"
    /\ last.ip = "ip1"
    /\ last.saved = "ok"
    /\ store["ip1"].present
    /\ store["ip2"].present


\* C30: a step that changes the record of an identity otherwise than by the
\* passing of time is the answered write of a request of that identity, and
\* the tokens a request is decided on are computed from what the store holds
\* under its own identity and from nothing else
C30_OwnKeyOnly ==
    [][/\ \A ip \in IPs :
             (store'[ip] # store[ip] /\ clock' = clock) =>
                 /\ last'.ip = ip
                 /\ last'.saved = "ok"
                 /\ \A other \in IPs \ {ip} : store'[other] = store[other]
       /\ (/\ queue # <<>>
           /\ Head(queue).kind = "get"
           /\ queue' # queue
           /\ Len(queue') = Len(queue)) =>
              LET r == queue'[Len(queue')]
                  own == store[Head(queue).ip]
              IN /\ r.ip = Head(queue).ip
                 /\ r.raw = (IF r.snapOk THEN own.data ELSE <<>>)
                 /\ r.tokens = calculateAvailableTokens(
                                   getBucketFromRedis(own, r.snapOk), r.now).tokens]_vars

\* ip2 is admitted on a full bucket at the very instant at which the record
\* of ip1 was written with no tokens left, and both records are in the store
C30_Witness ==
    /\ last.path = "metered"
    /\ last.ip = "ip2"
    /\ last.outcome = "next"
    /\ last.saved = "ok"
    /\ last.tokens = MAX_TOKENS * MS
    /\ store["ip1"].present
    /\ Stored("ip1") = Bucket(last.now, 0)
    /\ Stored("ip2") = Bucket(last.now, 0)
    /\ store["ip1"].ttl < store["ip2"].ttl

\* C23: getBucketStats never mutates state: it sends no write to the store,
\* the step that starts it and the step that answers it leave every stored
\* record and its expiry as they were, and it returns the token count
\* computed for its identity at its instant (to two decimals) together with
\* the bucket size, the refill rate, the cost and the last-refill instant.
C23_StatsDoesNotMutate ==
    [][/\ \A i \in 1..Len(queue') :
            queue'[i].path = "stats" => queue'[i].kind = "get"
       /\ store' # store => (clock' # clock \/ last'.path = "metered")
       /\ last'.path = "stats" =>
            LET r == last'
                held == /\ r.snapOk
                        /\ store[r.ip].present
                        /\ Parses(store[r.ip].data)
                expected == IF held THEN Refilled(Stored(r.ip), r.now)
                                    ELSE Milli(MAX_TOKENS)
                anchor == IF held THEN Stored(r.ip).lastRefill ELSE r.now
            IN /\ store' = store
               /\ r.outcome = "stats"
               /\ r.tokens = expected
               /\ r.availableTokens * 10 - 5 <= expected
               /\ expected < r.availableTokens * 10 + 5
               /\ r.maxTokens = MAX_TOKENS
               /\ r.tokensPerSecond = TOKENS_PER_SECOND
               /\ r.tokenCost = TOKEN_COST
               /\ DateParse(r.isoLastRefill) = anchor
      ]_vars

\* C27: with the requests of one identity served one at a time, a clock that
\* only goes forward and a store that always answers, the requests admitted
\* in any window of T seconds number at most
\* floor((maxTokens + T * refillRatePerSecond) / costPerRequest): for any two
\* admissions, the admissions from the first to the second cost no more than
\* a full bucket plus the refill of the time between them.
C27_WindowBound ==
    \A i \in 1..Len(admitted) : \A j \in i..Len(admitted) :
        (j - i + 1) * Milli(TOKEN_COST)
            <= Milli(MAX_TOKENS)
                + (admitted[j] - admitted[i]) * TOKENS_PER_SECOND

\* a window of more than no time is filled to its bound, one admission more
\* would exceed it, and the request that came next at the same instant was
\* denied
C27_Witness ==
    \E i \in 1..Len(admitted) :
        LET j == Len(admitted) IN
        /\ admitted[j] > admitted[i]
        /\ (j - i + 2) * Milli(TOKEN_COST)
            > Milli(MAX_TOKENS)
                + (admitted[j] - admitted[i]) * TOKENS_PER_SECOND
        /\ last.outcome = "429"
        /\ last.now = admitted[j]
        /\ last.snapOk

\* C31: a request admitted by one of the two early returns of rateLimiter
\* (no identity, or the flag false) issues no command to the store: the step
\* leaves the outstanding commands, every stored record and every expiry as
\* they were.
C31_FailOpenTouchesNothing ==
    [][last'.path \in {"noip", "failopen"} =>
          /\ last'.outcome = "next"
          /\ queue' = queue
          /\ store' = store]_vars

\* a request of ip1 has just been admitted by the fallback while the store
\* holds the record an earlier request of ip1 wrote
C31_Witness ==
    /\ last.path = "failopen"
    /\ last.outcome = "next"
    /\ last.ip = "ip1"
    /\ ~isRedisConnected
    /\ store["ip1"].present

\* C32: with the configured constants the expiry of a record never changes
\* an admission decision: in sequential execution with a clock that only goes
\* forward, from the instant a record expires on, the tokens computed for its
\* client without the record equal the tokens that would be computed from
\* the record had it been kept, and so does the decision.
C32_ExpiryChangesNoDecision ==
    [][\A ip \in IPs :
          (store[ip].present /\ ~store'[ip].present) =>
              \A e \in ElapsedSamples :
                  LET fresh == calculateAvailableTokens(
                                   getBucketFromRedis(store'[ip], TRUE),
                                   clock' + e)
                      kept == calculateAvailableTokens(
                                   getBucketFromRedis(store[ip], TRUE),
                                   clock' + e)
                  IN /\ fresh.tokens = kept.tokens
                     /\ Allowed(fresh.tokens) <=> Allowed(kept.tokens)]_vars

\* a client admitted once comes back more than a record lifetime later: it
\* finds no record, is given a full bucket and is admitted
C32_Witness ==
    /\ last.path = "metered"
    /\ last.snapOk
    /\ last.raw = <<>>
    /\ last.tokens = Milli(MAX_TOKENS)
    /\ last.outcome = "next"
    /\ Len(admitted) >= 2
    /\ admitted[Len(admitted)] = last.now
    /\ admitted[Len(admitted) - 1] + Milli(RECORD_TTL) <= last.now

\* C33: closeRedisConnection issues quit at most once, also when two calls
\* overlap: at no time are the quits of two calls outstanding together.
C33_QuitAtMostOnce ==
    Cardinality({i \in 1..Len(queue) : queue[i].kind = "quit"}) <= 1

\* C34: a POST /zip that rateLimiter denies never reaches the handler: the
\* step that denies it hands nothing to sendMessage and publishes nothing,
\* and its response is the 429; a message is handed to sendMessage only by
\* the step in which rateLimiter called next(), and a message reaches the
\* topic only as sendMessage resolves for it.
C34_DeniedNeverReachesHandler ==
    [][/\ (last'.kind = "done" /\ last'.outcome # "next") =>
            /\ sending' = sending
            /\ topic' = topic
            /\ reply'.status = last'.status
       /\ Len(sending') > Len(sending) =>
            /\ last'.kind = "done"
            /\ last'.outcome = "next"
       /\ topic' # topic =>
            /\ sending # <<>>
            /\ sending' = Tail(sending)
            /\ topic' = Append(topic, Queued(Head(sending), "route"))
            /\ reply'.status = 202]_vars

\* a POST /zip with tags has just been denied with 429 after an earlier one
\* was admitted and published: nothing is waiting to be sent and the topic
\* holds the one message
C34_Witness ==
    /\ last.outcome = "429"
    /\ reply.status = 429
    /\ reply.tags \in Tags
    /\ sending = <<>>
    /\ Len(topic) = 1
    /\ nreq = 2

\* C35: every zip job that POST /zip queued and answered with 202 is
\* processed by the worker: a delivery of such a message that the handler
\* has settled was routed to processZipJob.
C35_QueuedJobIsProcessed ==
    (handled.stage = "done" /\ handled.origin = "route") => handled.routed

\* a zip request that names its user: what messageHandler hands to
\* processZipJob
IsZipJob(data) ==
    /\ data.form = "object"
    /\ data.tags # Null
    /\ data.requestType = "zip"
    /\ data.prenom # Null

\* C36: the handler settles every delivery exactly once: it acks a message
\* it skipped (not a zip request, or no prenom) or whose job ran to its end,
\* and nacks one whose processing threw; a message whose job failed is never
\* acked, and a message still being processed is neither acked nor nacked.
C36_SettledExactlyOnce ==
    /\ \A i \in 1..Len(topic) :
          /\ topic[i].acks = 0
          /\ topic[i].nacks = 0
          /\ topic[i].routed => IsZipJob(topic[i].data)
    /\ handled.stage = "done" =>
          /\ handled.acks + handled.nacks = 1
          /\ handled.threw <=> handled.nacks = 1
          /\ handled.routed => IsZipJob(handled.data)
          /\ (handled.acks = 1 /\ ~handled.routed) =>
                (~IsZipJob(handled.data) /\ handled.data.form # "null")
          /\ (handled.acks = 1 /\ handled.routed) =>
                /\ handled.filename \in files
                /\ zipFilesStore[handled.data.tags] # <<>>

\* a zip job has just failed after its upload: the delivery was nacked once
\* and not acked, and the message waits on the subscription again
C36_Witness ==
    /\ handled.stage = "done"
    /\ handled.routed
    /\ handled.threw
    /\ handled.nacks = 1
    /\ handled.acks = 0
    /\ handled.filename \in files
    /\ \E i \in 1..Len(topic) :
          topic[i].data = handled.data /\ topic[i].stage = "queued"

\* C37: zipFilesStore maps a tags value to a filename only after the archive
\* for those tags was uploaded and its signed URL generated: the Map changes
\* only in the step where getSignedUrl resolves for a job of those tags,
\* whose file is in the bucket, and only for those tags; a job that fails at
\* or before that point leaves the Map as it was.
C37_MappedAfterUpload ==
    [][/\ \A t \in Tags :
            zipFilesStore'[t] # zipFilesStore[t] =>
                \E i \in 1..Len(topic) :
                    /\ topic[i].stage = "sign"
                    /\ topic[i].data.tags = t
                    /\ i <= Len(topic')
                    /\ topic'[i].stage = "firebase"
                    /\ zipFilesStore'[t] = topic[i].filename
                    /\ topic[i].filename \in files
       /\ (handled'.stage = "done" /\ handled'.threw) =>
            zipFilesStore' = zipFilesStore]_vars

\* one tags value is mapped to a file that is in the bucket, and a job for
\* another has just failed at getSignedUrl, after its upload: it is nacked
\* and its tags are still unmapped
C37_Witness ==
    /\ \E t \in Tags :
          zipFilesStore[t] # <<>> /\ zipFilesStore[t] \in files
    /\ handled.stage = "done"
    /\ handled.threw
    /\ handled.nacks = 1
    /\ handled.routed
    /\ handled.filename \in files
    /\ zipFilesStore[handled.data.tags] = <<>>

====
